---------------------------- MODULE Spec2Model ----------------------------
(***************************************************************************)
(* The Brain3D rendering component of inside-my-head-3d-js as a state      *)
(* machine.  Two renderers live in the repository and both are modelled:   *)
(*   "raw"   - src/unnamed/part_000, hand-written WebGL                     *)
(*   "three" - src/components/Brain3D.js, three.js                          *)
(* The host (browser + React) is modelled by its contract: the animation   *)
(* frame callback list, the ResizeObserver, the canvas width/height        *)
(* attributes (unsigned long: a fractional value is truncated on           *)
(* assignment) and the effect/cleanup protocol of useEffect.               *)
(*                                                                         *)
(* Units: devicePixelRatio and pixel ratios are counted in halves (3 is    *)
(* 1.5), angles in 1e-4 rad, emissive values and offsets in hundredths.    *)
(***************************************************************************)
EXTENDS Integers, Sequences, FiniteSets, TLC

\* ------------------------------------------------------------- bounds
MaxSize == 2        \* container logical width/height range over 1..MaxSize
MaxHandles == 4     \* requestAnimationFrame hands out handles 1..MaxHandles
MaxInits == 2       \* runs of the initializing effect
MaxCoord == 1       \* translations and vertices of the m4 inputs range over 0..MaxCoord

\* ---------------------------------------------------- program constants
DprCap == 4               \* Math.min(2, devicePixelRatio), in halves
DprDefault == 2           \* devicePixelRatio || 1, in halves
CanvasDefaultWidth == 300 \* a canvas element created without width/height
CanvasDefaultHeight == 150
RawRate == 16             \* ry += 0.10 * 0.016
ThreeRate == 15           \* group.rotation.y += 0.0015
Boosted == 25             \* 0.25
Baseline == 5             \* 0.05
LeftOffset == -55         \* drawHemi(-0.55, ...)
RightOffset == 55         \* drawHemi(+0.55, ...)

Sides == {"none", "left", "right"}
DprValues == {1, 3, 6}                \* 0.5, 1.5, 3
Sizes == 1..MaxSize
Kinds == {"shader", "program", "buffer", "renderer", "geometry", "material"}

Min(a, b) == IF a < b THEN a ELSE b

VARIABLES
  variant,     \* which renderer the page uses: "raw" or "three"
  clientW,     \* el.clientWidth
  clientH,     \* el.clientHeight
  dpr,         \* window.devicePixelRatio, in halves
  pending,     \* the host's animation frame callbacks: records [id, inst]
  nextId,      \* the next handle requestAnimationFrame returns
  mounted,     \* the component is mounted
  activeSide,  \* the activeSide prop
  cleanup,     \* the instance whose effect cleanup React holds, 0 if none
  meshRef,     \* three: the instance leftRef/rightRef point into, 0 if unset
  elW,         \* canvas.width (backing store)
  elH,         \* canvas.height
  viewport,    \* the last gl.viewport / setViewport size
  insts,       \* the closures of the effect runs still reachable
  nextInst,    \* the number of the next effect run
  observers,   \* the instances whose ResizeObserver is connected
  live,        \* graphics objects created and not released, by kind
  draws,       \* the draw calls issued since the component mounted: the offsetX of each
  issued,      \* the draw calls of the last step: [offsetX, emissive, aspect, inst]
  frames,      \* frame callback bodies executed since the component mounted
  ran,         \* the instance whose frame callback body the last step ran, 0 if none
  last,        \* the handlers the last step executed
  thrown,      \* what the last run of the initializing effect threw
  lastRun,     \* the outcome of each stage in the last run of the effect
  faulted,     \* the instances whose initialization threw
  tornDown,    \* the instances whose cleanup has returned
  realloc,     \* the last step's resize handler invocation reallocated the backing store
  repeat,      \* ... and was invoked with the size and ratio of the one before it
  lastCall,    \* the <<width, height, ratio>> of the last resize handler invocation
  ma, mb,      \* m4: the operands of m4.mul (drawHemi: proj() and view)
  mm,          \* m4: drawHemi's model matrix
  mv,          \* m4: a vertex, vec4(displaced, 1.0)
  mo,          \* m4: the result of m4.mul(ma, mb) (drawHemi: mvp)
  mpc          \* m4: "off", "start", "mul" or "mvp"

progVars == <<variant, clientW, clientH, dpr, pending, nextId, mounted, activeSide,
              cleanup, meshRef, elW, elH, viewport, insts, nextInst, observers, live,
              draws, issued, frames, ran, last, thrown, lastRun,
              faulted, tornDown, realloc, repeat, lastCall>>
m4Vars == <<ma, mb, mm, mv, mo, mpc>>
vars == <<progVars, m4Vars>>

\* The program state as one record, so that handlers compose as functions.
State ==
  [variant |-> variant, clientW |-> clientW, clientH |-> clientH, dpr |-> dpr,
   pending |-> pending, nextId |-> nextId, mounted |-> mounted,
   activeSide |-> activeSide, cleanup |-> cleanup, meshRef |-> meshRef,
   elW |-> elW, elH |-> elH, viewport |-> viewport, insts |-> insts,
   nextInst |-> nextInst, observers |-> observers, live |-> live, draws |-> draws,
   issued |-> issued, frames |-> frames,
   ran |-> ran, last |-> last, thrown |-> thrown, lastRun |-> lastRun,
   faulted |-> faulted, tornDown |-> tornDown, realloc |-> realloc,
   repeat |-> repeat, lastCall |-> lastCall]

\* The state a step starts from: what the last step did is forgotten.
Begin ==
  [State EXCEPT !.last = {}, !.issued = <<>>, !.ran = 0, !.realloc = FALSE,
                !.repeat = FALSE]

\* Closures nothing refers to any more are dropped (garbage collection).
Collect(s) ==
  LET reach == ({s.cleanup, s.meshRef} \cup {cb.inst : cb \in s.pending}
                  \cup s.observers) \cap DOMAIN s.insts
  IN [s EXCEPT !.insts = [i \in reach |-> s.insts[i]]]

Commit(s0) ==
  \E s \in {Collect(s0)} :
  /\ variant' = s.variant /\ clientW' = s.clientW /\ clientH' = s.clientH
  /\ dpr' = s.dpr /\ pending' = s.pending /\ nextId' = s.nextId
  /\ mounted' = s.mounted /\ activeSide' = s.activeSide /\ cleanup' = s.cleanup
  /\ meshRef' = s.meshRef /\ elW' = s.elW /\ elH' = s.elH
  /\ viewport' = s.viewport /\ insts' = s.insts /\ nextInst' = s.nextInst
  /\ observers' = s.observers /\ live' = s.live /\ draws' = s.draws
  /\ issued' = s.issued /\ frames' = s.frames
  /\ ran' = s.ran /\ last' = s.last
  /\ thrown' = s.thrown /\ lastRun' = s.lastRun /\ faulted' = s.faulted
  /\ tornDown' = s.tornDown /\ realloc' = s.realloc /\ repeat' = s.repeat
  /\ lastCall' = s.lastCall

\* ------------------------------------------------------------- host
\* requestAnimationFrame(cb): the handle returned is s.nextId.
requestAnimationFrame(s, i) ==
  [s EXCEPT !.pending = @ \cup {[id |-> s.nextId, inst |-> i]},
            !.nextId = @ + 1]

cancelAnimationFrame(s, h) ==
  [s EXCEPT !.pending = {cb \in @ : cb.id # h}]

\* canvas.width = x: the attribute is an unsigned long, x (in halves) is truncated.
ToUnsignedLong(halves) == halves \div 2

Create(s, kind, n) == [s EXCEPT !.live[kind] = @ + n]
Release(s, kind, n) == [s EXCEPT !.live[kind] = @ - n]

\* Bookkeeping of a resize handler invocation.
Invoked(s, did) ==
  LET call == <<s.clientW, s.clientH, s.dpr>> IN
  [s EXCEPT !.realloc = did, !.repeat = (s.lastCall = call), !.lastCall = call,
            !.last = @ \cup {"resize"}]


\* ------------------------------------------------- the raw renderer
NewInst(side) ==
  [side |-> side, t |-> 0, ry |-> 0, raf |-> 0, pixelRatio |-> 0,
   aspW |-> 0, aspH |-> 0, uL |-> Baseline, uR |-> Baseline]

\* resize without the cap of 2 on the ratio.
resizeUncapped(s) ==
  LET d == IF s.dpr = 0 THEN DprDefault ELSE s.dpr
      w == s.clientW
      h == s.clientH
      differs == (2 * s.elW # w * d) \/ (2 * s.elH # h * d)
      s1 == IF differs
              THEN [s EXCEPT !.elW = ToUnsignedLong(w * d),
                             !.elH = ToUnsignedLong(h * d)]
              ELSE s
  IN Invoked([s1 EXCEPT !.viewport = <<s1.elW, s1.elH>>], differs)

\* const resize = () => { ... }: reallocate only when el.width/el.height differ
\* from w * dpr and h * dpr, then set the viewport.
resize(s) ==
  LET d == Min(DprCap, IF s.dpr = 0 THEN DprDefault ELSE s.dpr)
      w == s.clientW
      h == s.clientH
      differs == (2 * s.elW # w * d) \/ (2 * s.elH # h * d)
      s1 == IF differs
              THEN [s EXCEPT !.elW = ToUnsignedLong(w * d),
                             !.elH = ToUnsignedLong(h * d)]
              ELSE s
  IN Invoked([s1 EXCEPT !.viewport = <<s1.elW, s1.elH>>], differs)

\* compile without the COMPILE_STATUS check.
compileUnchecked(ok, log) == ""

\* function compile(type, src): what it throws, "" when it returns the shader.
\* (gl.COMPILER_STATUS is undefined, so the parameter read is gl.COMPILE_STATUS.)
compile(ok, log) == IF ok THEN "" ELSE log

\* gl.linkProgram(prog) and the LINK_STATUS check: what it throws.
link(ok, log) == IF ok THEN "" ELSE log

\* function drawHemi(offsetX, color, emissive): proj() reads el.width / el.height.
drawHemi(s, i, offsetX, emissive) ==
  [s EXCEPT !.draws = Append(@, offsetX),
            !.issued = Append(@, [offsetX |-> offsetX, emissive |-> emissive,
                                  aspect |-> <<s.elW, s.elH>>, inst |-> i])]

\* loop that forgets the handle of the callback it schedules.
loopStaleHandle(s, i, now) ==
  LET side == s.insts[i].side
      s1 == [s EXCEPT !.insts[i].t = now, !.insts[i].ry = @ + RawRate]
      s2 == drawHemi(s1, i, LeftOffset,
                     IF side = "left" THEN Boosted ELSE Baseline)
      s3 == drawHemi(s2, i, RightOffset,
                     IF side = "right" THEN Boosted ELSE Baseline)
  IN requestAnimationFrame(s3, i)

\* loop that draws the right hemisphere first.
loopSwapped(s, i, now) ==
  LET side == s.insts[i].side
      s1 == [s EXCEPT !.insts[i].t = now, !.insts[i].ry = @ + RawRate]
      s2 == drawHemi(s1, i, RightOffset,
                     IF side = "right" THEN Boosted ELSE Baseline)
      s3 == drawHemi(s2, i, LeftOffset,
                     IF side = "left" THEN Boosted ELSE Baseline)
      s4 == requestAnimationFrame(s3, i)
  IN [s4 EXCEPT !.insts[i].raf = s3.nextId]

\* const loop = (now) => { ... }
loop(s, i, now) ==
  LET side == s.insts[i].side
      s1 == [s EXCEPT !.insts[i].t = now, !.insts[i].ry = @ + RawRate]
      s2 == drawHemi(s1, i, LeftOffset,
                     IF side = "left" THEN Boosted ELSE Baseline)
      s3 == drawHemi(s2, i, RightOffset,
                     IF side = "right" THEN Boosted ELSE Baseline)
      s4 == requestAnimationFrame(s3, i)
  IN [s4 EXCEPT !.insts[i].raf = s3.nextId]

\* cleanup that does not cancel the scheduled callback.
rawCleanupNoCancel(s, i) == [s EXCEPT !.observers = @ \ {i}]

\* return () => { cancelAnimationFrame(raf); ro.disconnect(); }
rawCleanup(s, i) ==
  LET s1 == cancelAnimationFrame(s, s.insts[i].raf)
  IN [s1 EXCEPT !.observers = @ \ {i}]

\* An exception leaves the effect: nothing after the throw runs, no cleanup is
\* returned, and React drops the component.
Throw(s, i, log) ==
  [s EXCEPT !.thrown = log, !.faulted = @ \cup {i}, !.cleanup = 0,
            !.mounted = FALSE]

\* useEffect(() => { ... }, [activeSide]): one run of the initializing effect.
\* in: which of getContext, the two compilations and the link succeed.
rawEffect(s, side, in) ==
  LET i == s.nextInst
      s0 == [s EXCEPT !.nextInst = @ + 1, !.thrown = "none", !.lastRun = in,
                      !.last = @ \cup {"init"}]
      s1 == Create(Create(s0, "program", 1), "shader", 1)
      e1 == compile(in.vs, "vertexShaderInfoLog")
      s2 == Create(s1, "shader", 1)
      e2 == compile(in.fs, "fragmentShaderInfoLog")
      e3 == link(in.link, "programInfoLog")
      s3 == Create(s2, "buffer", 2)
      s4 == resize([s3 EXCEPT !.observers = @ \cup {i}])
      s5 == [s4 EXCEPT !.insts = (i :> NewInst(side)) @@ @]
      s6 == requestAnimationFrame(s5, i)
  IN IF ~in.gl THEN [s0 EXCEPT !.cleanup = 0]
     ELSE IF e1 # "" THEN Throw(s1, i, e1)
     ELSE IF e2 # "" THEN Throw(s2, i, e2)
     ELSE IF e3 # "" THEN Throw(s2, i, e3)
     ELSE [s6 EXCEPT !.insts[i].raf = s5.nextId, !.cleanup = i]

\* ------------------------------------------------ the three.js renderer
\* renderer.setSize(w, h): the canvas is always resized, to floor(w * pixelRatio).
setSize(s, i, w, h) ==
  LET pr == s.insts[i].pixelRatio
      s1 == [s EXCEPT !.elW = ToUnsignedLong(w * pr),
                      !.elH = ToUnsignedLong(h * pr)]
  IN [s1 EXCEPT !.viewport = <<s1.elW, s1.elH>>]

\* renderer.render(scene, camera): one draw per mesh, left then right, each with
\* its material's uEmissive and the camera's aspect.
render(s, i) ==
  LET c == s.insts[i]
      d(x, e) == [offsetX |-> x, emissive |-> e,
                  aspect |-> <<c.aspW, c.aspH>>, inst |-> i]
  IN [s EXCEPT !.draws = @ \o <<LeftOffset, RightOffset>>,
               !.issued = @ \o <<d(LeftOffset, c.uL), d(RightOffset, c.uR)>>]

\* const animate = (t) => { ... }
animate(s, i, now) ==
  LET s1 == requestAnimationFrame(s, i)
      s2 == [s1 EXCEPT !.insts[i].raf = s.nextId,
                       !.insts[i].ry = @ + ThreeRate,
                       !.insts[i].t = now]
  IN render(s2, i)

\* const onResize = () => { ... }
onResize(s, i) ==
  LET s1 == setSize(s, i, s.clientW, s.clientH)
  IN Invoked([s1 EXCEPT !.insts[i].aspW = s.clientW,
                        !.insts[i].aspH = s.clientH], TRUE)

\* return () => { cancelAnimationFrame(raf); ro.disconnect();
\*                renderer.dispose(); el.innerHTML = ""; }
threeCleanup(s, i) ==
  LET s1 == cancelAnimationFrame(s, s.insts[i].raf)
  IN Release([s1 EXCEPT !.observers = @ \ {i}], "renderer", 1)

\* useEffect(() => { ... }, []): the initializing effect.
threeEffect(s) ==
  LET i == s.nextInst
      c == [NewInst("none") EXCEPT !.pixelRatio = Min(s.dpr, DprCap),
                                   !.aspW = s.clientW, !.aspH = s.clientH]
      s0 == [s EXCEPT !.nextInst = @ + 1, !.thrown = "none",
                      !.last = @ \cup {"init"},
                      !.insts = (i :> c) @@ @]
      s1 == setSize(Create(s0, "renderer", 1), i, s.clientW, s.clientH)
      s2 == Create(Create(s1, "geometry", 1), "material", 2)
      s3 == requestAnimationFrame([s2 EXCEPT !.meshRef = i], i)
      s4 == [s3 EXCEPT !.insts[i].raf = s2.nextId,
                       !.observers = @ \cup {i}]
  IN [s4 EXCEPT !.cleanup = i]

\* useEffect(() => { ... }, [activeSide]): the hover effect.
hoverEffect(s) ==
  IF s.meshRef = 0 THEN s
  ELSE [s EXCEPT
          !.insts[s.meshRef].uL =
             IF s.activeSide = "left" THEN Boosted ELSE Baseline,
          !.insts[s.meshRef].uR =
             IF s.activeSide = "right" THEN Boosted ELSE Baseline,
          !.last = @ \cup {"hover"}]

\* ------------------------------------------------------ both renderers
\* React runs the cleanup the initializing effect returned, if it returned one.
RunCleanup(s) ==
  IF s.cleanup = 0 THEN s
  ELSE LET i == s.cleanup
           s1 == IF s.variant = "raw" THEN rawCleanup(s, i)
                                      ELSE threeCleanup(s, i)
       IN [s1 EXCEPT !.cleanup = 0, !.tornDown = @ \cup {i},
                     !.last = @ \cup {"cleanup"}]

\* The ResizeObserver calls the handler of every connected observer.
RECURSIVE Notify(_, _)
Notify(s, obs) ==
  IF obs = {} THEN s
  ELSE LET i == CHOOSE x \in obs : TRUE
       IN Notify(IF s.variant = "raw" THEN resize(s) ELSE onResize(s, i),
                 obs \ {i})

AllOk == [gl |-> TRUE, vs |-> TRUE, fs |-> TRUE, link |-> TRUE]
\* What can happen in a run of the effect: all stages succeed, or one fails
\* (the stages after a failed one are not reached).
Outcomes ==
  {AllOk, [AllOk EXCEPT !.gl = FALSE], [AllOk EXCEPT !.vs = FALSE],
   [AllOk EXCEPT !.fs = FALSE], [AllOk EXCEPT !.link = FALSE]}
NoLive == [k \in Kinds |-> 0]

ProgInit ==
  /\ pending = {} /\ nextId = 1
  /\ mounted = FALSE /\ activeSide = "none" /\ cleanup = 0 /\ meshRef = 0
  /\ elW = 0 /\ elH = 0 /\ viewport = <<0, 0>>
  /\ insts = <<>> /\ nextInst = 1 /\ observers = {}
  /\ live = NoLive /\ draws = <<>> /\ issued = <<>>
  /\ frames = 0 /\ ran = 0 /\ last = {}
  /\ thrown = "none" /\ lastRun = AllOk /\ faulted = {} /\ tornDown = {}
  /\ realloc = FALSE /\ repeat = FALSE /\ lastCall = <<>>

Init ==
  /\ variant \in {"raw", "three"}
  /\ clientW \in Sizes /\ clientH \in Sizes /\ dpr \in DprValues
  /\ ProgInit
  /\ ma = <<>> /\ mb = <<>> /\ mm = <<>> /\ mv = <<>> /\ mo = <<>>
  /\ mpc = "off"

\* The page mounts <Brain3D activeSide={side} />: React creates the element and
\* runs the component's effects in order.
Mount(side, in) ==
  /\ ~mounted
  /\ nextInst <= MaxInits /\ nextId <= MaxHandles
  /\ variant = "three" => in = AllOk
  /\ LET s0 == [Begin EXCEPT !.mounted = TRUE, !.activeSide = side,
                             !.elW = CanvasDefaultWidth,
                             !.elH = CanvasDefaultHeight,
                             !.lastCall = <<>>, !.frames = 0,
                             !.draws = <<>>,
                             !.meshRef = 0]
     IN Commit(IF variant = "raw" THEN rawEffect(s0, side, in)
                                  ELSE hoverEffect(threeEffect(s0)))
  /\ UNCHANGED m4Vars

\* The raw effect with an empty dependency list: it is not re-run on a change.
HoverChangeNoRerun(side, in) ==
  /\ mounted
  /\ in = AllOk
  /\ LET s0 == [Begin EXCEPT !.activeSide = side]
     IN Commit(IF variant = "three" /\ side # activeSide
                 THEN hoverEffect(s0) ELSE s0)
  /\ UNCHANGED m4Vars

\* The page re-renders with activeSide = side: React re-runs the effects whose
\* dependencies changed, cleanup first.
HoverChange(side, in) ==
  /\ mounted
  /\ LET s0 == [Begin EXCEPT !.activeSide = side]
     IN IF side = activeSide
          THEN in = AllOk /\ Commit(s0)
          ELSE IF variant = "raw"
            THEN /\ nextInst <= MaxInits /\ nextId <= MaxHandles
                 /\ Commit(rawEffect(RunCleanup(s0), side, in))
            ELSE in = AllOk /\ Commit(hoverEffect(s0))
  /\ UNCHANGED m4Vars

\* The host runs one pending animation frame callback with the timestamp now.
Frame(cb) ==
  /\ cb \in pending
  /\ nextId <= MaxHandles
  /\ LET s0 == [Begin EXCEPT !.pending = @ \ {cb}, !.frames = @ + 1,
                             !.ran = cb.inst,
                             !.last = {"frame"}]
         now == frames + 1
     IN Commit(IF variant = "raw" THEN loop(s0, cb.inst, now)
                                  ELSE animate(s0, cb.inst, now))
  /\ UNCHANGED m4Vars

\* The page unmounts the component; its canvas element goes with it.
Unmount ==
  /\ mounted
  /\ LET s0 == RunCleanup(Begin)
     IN Commit([s0 EXCEPT !.mounted = FALSE, !.meshRef = 0,
                          !.activeSide = "none",
                          !.elW = 0, !.elH = 0, !.viewport = <<0, 0>>,
                          !.lastCall = <<>>])
  /\ UNCHANGED m4Vars

\* The container takes size w x h and the window ratio d (possibly the ones it
\* had) and the ResizeObserver notifies the connected observers.
ResizeNotify(w, h, d) ==
  /\ observers # {}
  /\ LET s0 == [Begin EXCEPT !.clientW = w, !.clientH = h, !.dpr = d]
     IN Commit(Notify(s0, observers))
  /\ UNCHANGED m4Vars

Next ==
  \/ \E side \in Sides, in \in Outcomes : Mount(side, in)
  \/ \E cb \in pending : Frame(cb)
  \/ Unmount
  \/ \E w \in Sizes, h \in Sizes, d \in DprValues : ResizeNotify(w, h, d)
  \/ \E side \in Sides, in \in Outcomes : HoverChange(side, in)

Spec == Init /\ [][Next]_vars


\* ------------------------------------------------------------ claims
Running == cleanup # 0
Emissive(side, hemi) == IF side = hemi THEN Boosted ELSE Baseline
Rate == IF variant = "raw" THEN RawRate ELSE ThreeRate
Clamp(x, lo, hi) == IF x < lo THEN lo ELSE IF x > hi THEN hi ELSE x
\* The last step initialized the renderer or ran its resize handler.
Sized == Running /\ ({"init", "resize"} \cap last # {})
\* Two ratios <<num, den>> are equal.
SameRatio(a, b) == a[1] * b[2] = b[1] * a[2]

\* C1: once the cleanup of an instance has returned, no frame callback body of
\* that instance runs and no draw call of it is issued.
C1_NoFrameAfterTeardown ==
  /\ ran \notin tornDown
  /\ \A k \in DOMAIN issued : issued[k].inst \notin tornDown

\* A frame callback has just run and drawn although an earlier instance was torn
\* down while its callback was scheduled.
C1_Witness ==
  /\ tornDown # {} /\ ran # 0 /\ Len(issued) = 2 /\ mounted

\* C2: after N frame callbacks exactly N pairs of draw calls have been issued,
\* each pair the left hemisphere (-0.55) and then the right one (+0.55), and only
\* a frame callback draws.
C2_ExactlyOnePairPerFrame ==
  /\ Len(draws) = 2 * frames
  /\ \A k \in 1..frames :
       draws[2 * k - 1] = LeftOffset /\ draws[2 * k] = RightOffset
  /\ Len(issued) = (IF "frame" \in last THEN 2 ELSE 0)

\* The loop was started, ran three frames and was stopped.
C2_Witness == ~mounted /\ frames = 3 /\ Len(draws) = 6 /\ pending = {}

\* C3: a resize handler invocation with the logical size and ratio of the one
\* before it does not reallocate the backing store.
C3_RepeatedResizeDoesNotReallocate ==
  ("resize" \in last /\ repeat) => ~realloc

C5_EmissiveFollowsSignal ==
  "frame" \in last =>
     /\ Len(issued) = 2
     /\ issued[1].offsetX = LeftOffset
     /\ issued[1].emissive = Emissive(activeSide, "left")
     /\ issued[2].offsetX = RightOffset
     /\ issued[2].emissive = Emissive(activeSide, "right")

\* The second frame since mounting, drawn after the signal changed to left.
C5_Witness ==
  /\ "frame" \in last /\ frames = 2 /\ activeSide = "left"
  /\ variant = "raw" /\ cleanup = 2 /\ tornDown = {1}
  /\ issued[1].emissive = Boosted /\ issued[2].emissive = Baseline

\* C6: while the component stays mounted the angle grows by the fixed rate with
\* every frame and nothing else changes it: after n frames it is n times the rate.
C6_AngleAccumulatesAcrossHover ==
  Running => insts[cleanup].ry = Rate * frames

\* C7: a failed compilation or link throws the info log, and leaves no frame
\* callback scheduled and no resize observer registered; no draw call is ever
\* issued by an instance whose initialization threw.
InitFailed == lastRun.gl /\ ~(lastRun.vs /\ lastRun.fs /\ lastRun.link)
ExpectedLog ==
  IF ~lastRun.vs THEN "vertexShaderInfoLog"
  ELSE IF ~lastRun.fs THEN "fragmentShaderInfoLog"
  ELSE "programInfoLog"
C7_FailedInitThrowsAndLeavesNothing ==
  /\ InitFailed => /\ thrown = ExpectedLog
                   /\ pending = {} /\ observers = {} /\ ~Running
  /\ \A i \in faulted :
       /\ \A cb \in pending : cb.inst # i
       /\ i \notin observers
       /\ ran # i
       /\ \A k \in DOMAIN issued : issued[k].inst # i

\* The effect re-run by a hover change failed to link its program.
C7_Witness ==
  /\ thrown = "programInfoLog" /\ faulted = {2} /\ tornDown = {1}
  /\ "init" \in last

\* C8: after teardown every graphics object the instance created is released and
\* the resize observation is disconnected.
C8_TeardownReleasesEverything ==
  ("cleanup" \in last /\ ~Running) => (live = NoLive /\ observers = {})

\* C10: exactly one frame callback is pending while the loop is running and none
\* while it is stopped.
C10_OnePendingIffRunning ==
  Cardinality(pending) = (IF Running THEN 1 ELSE 0)

\* The loop restarted after a teardown and has run a frame: one callback pending.
C10_Witness ==
  /\ Running /\ tornDown # {} /\ "frame" \in last /\ Cardinality(pending) = 1

\* ------------------------------------------------------------ m4
\* A matrix is the 16-element array of the source, element k of the array being
\* element k + 1 of the tuple.  Angles are given by their <<cos, sin>>.
I == <<1, 0, 0, 0,  0, 1, 0, 0,  0, 0, 1, 0,  0, 0, 0, 1>>

\* mul: (a, b) => { ... o[i * 4 + j] = sum over k of a[i * 4 + k] * b[k * 4 + j] }
mul(a, b) ==
  [n \in 1..16 |->
     LET i == (n - 1) \div 4
         j == (n - 1) % 4
     IN a[i * 4 + 1] * b[0 * 4 + j + 1] + a[i * 4 + 2] * b[1 * 4 + j + 1]
          + a[i * 4 + 3] * b[2 * 4 + j + 1] + a[i * 4 + 4] * b[3 * 4 + j + 1]]

\* persp: (fovy, aspect, near, far), f standing for 1 / tan(fovy / 2); the
\* arguments used make the divisions exact.
persp(f, aspect, near, far) ==
  <<f \div aspect, 0, 0, 0,
    0, f, 0, 0,
    0, 0, (far + near) \div (near - far), -1,
    0, 0, (2 * far * near) \div (near - far), 0>>

\* t: (m, [x, y, z]) => { o[12] += x; o[13] += y; o[14] += z }
t(m, v) == [m EXCEPT ![13] = @ + v[1], ![14] = @ + v[2], ![15] = @ + v[3]]

\* s: (m, [x, y, z]) => { o[0] *= x; o[5] *= y; o[10] *= z }
s(m, v) == [m EXCEPT ![1] = @ * v[1], ![6] = @ * v[2], ![11] = @ * v[3]]

rX(m, r) ==
  mul(m, <<1, 0, 0, 0,  0, r[1], r[2], 0,  0, -r[2], r[1], 0,  0, 0, 0, 1>>)

rY(m, r) ==
  mul(m, <<r[1], 0, -r[2], 0,  0, 1, 0, 0,  r[2], 0, r[1], 0,  0, 0, 0, 1>>)

\* The vertex shader: gl_Position = uMVP * vec4(displaced, 1.0), the matrix having
\* been uploaded by gl.uniformMatrix4fv(uMVP, false, mvp), i.e. untransposed:
\* array element c * 4 + r is row r, column c.
Apply(m, v) ==
  [r \in 1..4 |->
     m[r] * v[1] + m[4 + r] * v[2] + m[8 + r] * v[3] + m[12 + r] * v[4]]

\* drawHemi's model matrix, with whole numbers for its scale and offsets and a
\* quarter turn for its tilt of 0.08 rad.
hemiModel(ry, offsetX, bob) ==
  t(rY(rX(s(I, <<16, 14, 16>>), <<0, 1>>), ry), <<offsetX, bob, 0>>)

\* const view = m4.t(m4.I(), [0, 0, -3.1])
hemiView == t(I, <<0, 0, -31>>)

\* const mvp = m4.mul(proj(), m4.mul(view, model))
hemiMvp(proj, view, model) == mul(proj, mul(view, model))

Turns == {<<1, 0>>, <<0, 1>>, <<-1, 0>>, <<0, -1>>}
Coords == 0..MaxCoord
Vec3 == Coords \X Coords \X Coords
Scale3 == {<<v[1] + 1, v[2] + 1, v[3] + 1>> : v \in Vec3}
Mats ==
  {t(I, v) : v \in Vec3} \cup {s(I, v) : v \in Scale3}
    \cup {rX(I, r) : r \in Turns} \cup {rY(I, r) : r \in Turns}
    \cup {persp(1, 1, 1, 2)}
Vertices == {<<v[1], v[2], v[3], 1>> : v \in Vec3}

InitM4 ==
  /\ variant = "raw" /\ clientW = 1 /\ clientH = 1 /\ dpr = 2
  /\ ProgInit
  /\ ma \in Mats /\ mb \in Mats /\ mv \in Vertices
  /\ mm = I /\ mo = I /\ mpc = "start"

\* o = m4.mul(a, b)
MulStep ==
  /\ mpc = "start"
  /\ mo' = mul(ma, mb)
  /\ mpc' = "mul"
  /\ UNCHANGED <<progVars, ma, mb, mm, mv>>

\* One drawHemi: the matrix sent as uMVP.
MvpStep(ry, offsetX) ==
  /\ mpc = "start"
  /\ \E model \in {hemiModel(ry, offsetX, 0)} :
       /\ ma' = persp(1, 1, 1, 2)
       /\ mb' = hemiView
       /\ mm' = model
       /\ mo' = hemiMvp(persp(1, 1, 1, 2), hemiView, model)
  /\ mpc' = "mvp"
  /\ UNCHANGED <<progVars, mv>>

NextM4 ==
  \/ MulStep
  \/ \E ry \in Turns, offsetX \in {LeftOffset, RightOffset} :
       MvpStep(ry, offsetX)

SpecM4 == InitM4 /\ [][NextM4]_vars

\* C9: in the shader's convention m4.mul(a, b) applied to a vertex is b applied,
\* then a; and the matrix sent as uMVP applies model, then view, then projection.
C9_MulAppliesRightOperandFirst ==
  /\ mpc = "mul" => Apply(mo, mv) = Apply(ma, Apply(mb, mv))
  /\ mpc = "mvp" => Apply(mo, mv) = Apply(ma, Apply(mb, Apply(mm, mv)))

\* What the code does instead: the left operand is applied first.
C9_MulAppliesLeftOperandFirst ==
  /\ mpc = "mul" => Apply(mo, mv) = Apply(mb, Apply(ma, mv))
  /\ mpc = "mvp" => Apply(mo, mv) = Apply(mm, Apply(mb, Apply(ma, mv)))

=============================================================================
